---- MODULE Spec2Model ----
(***************************************************************************)
(* A model of auto-caption-ify (src/caption.py, src/fontify.py): the       *)
(* caption grouping loop of add_captions_to_video, the life of its         *)
(* temporary audio file and clip handles, font resolution, load_config,    *)
(* parse_position and the zoom transform of make_zoom_transform.           *)
(***************************************************************************)
EXTENDS Integers, Sequences, FiniteSets, TLC

VARIABLES
    \* ---- the grouping loop of add_captions_to_video ----
    config,            \* the fields of the loaded configuration the loop reads
    result,            \* result["segments"]: the transcript
    seg,               \* index of the segment the outer loop is at (1-based)
    wi,                \* index of the word the inner loop is at (1-based)
    word_buffer, word_start_times, word_end_times,
    subtitle_clips,    \* the caption events, in emission order
    colors,            \* itertools.cycle: how many palette entries were consumed, mod len
    pc,                \* position of the loop
    \* ---- add_captions_to_video as a whole: temp file and handles ----
    run,
    \* ---- ensure_font_exists / download_font ----
    font,
    \* ---- load_config ----
    conf,
    \* ---- parse_position ----
    pos,
    \* ---- make_zoom_transform ----
    zoom

grouperVars == <<config, result, seg, wi, word_buffer, word_start_times,
                 word_end_times, subtitle_clips, colors, pc>>

vars == <<grouperVars, run, font, conf, pos, zoom>>

-----------------------------------------------------------------------------
(* Bounds of the model. *)
MaxWords == 3      \* words in a transcript, all segments together
MaxSegs == 2       \* segments in a transcript
MaxGroup == 3      \* largest number_of_words tried
MaxPalette == 2    \* longest text_colors list tried
MaxClips == 2      \* caption clips rendered in a modelled run
MaxKeys == 2       \* keys a modelled config file sets
MaxDuration == 10  \* longest clip duration, and latest frame time, in ticks

-----------------------------------------------------------------------------
(* Values. *)
Idle == [pc |-> "idle"]          \* a part of the program that is not running
None == -1                       \* no highlight index
NoColor == "none"                \* a clip that took no palette color
DefaultColors == <<"#00BFFF", "#90EE90", "#FFD700">>
AllColors == DefaultColors \o <<"#FFFFFF", "#FF0000">>

SeqsUpTo(U, n) == UNION {[1..k -> U] : k \in 0..n}

Min(a, b) == IF a <= b THEN a ELSE b

(* str.strip(): leading and trailing white space removed. *)
IsSpaceChar(c) == c \in {" ", "\t", "\n"}

RECURSIVE LStrip(_)
LStrip(w) == IF w # <<>> /\ IsSpaceChar(Head(w)) THEN LStrip(Tail(w)) ELSE w

RECURSIVE RStrip(_)
RStrip(w) ==
    IF w # <<>> /\ IsSpaceChar(w[Len(w)]) THEN RStrip(SubSeq(w, 1, Len(w) - 1)) ELSE w

Strip(w) == RStrip(LStrip(w))

(* str.isspace(): non-empty and white space only. *)
IsSpace(w) == w # <<>> /\ \A i \in 1..Len(w) : IsSpaceChar(w[i])

-----------------------------------------------------------------------------
(* Transcripts: a flat word sequence cut into segments. *)
RawTexts == {<<" ">>, <<" ", "a">>, <<"b", " ">>}
TimePairs == {<<0, 0>>, <<0, 1>>, <<1, 1>>, <<1, 2>>, <<0, 2>>}

Cuts(n) ==
    UNION {{c \in [1..k -> 0..n] : \A i \in 1..(k - 1) : c[i] <= c[i + 1]}
           : k \in 0..(MaxSegs - 1)}

CutAt(flat, c) ==
    [j \in 1..(Len(c) + 1) |->
        SubSeq(flat,
               (IF j = 1 THEN 0 ELSE c[j - 1]) + 1,
               IF j = Len(c) + 1 THEN Len(flat) ELSE c[j])]

Transcripts(Flats) ==
    {<<>>} \cup {CutAt(flat, c) : <<flat, c>> \in
                    UNION {{<<f, c>> : c \in Cuts(Len(f))} : f \in Flats}}

(* Words that differ in text, spoken one after the other. *)
TextFlats ==
    {[p \in 1..Len(t) |-> [word |-> t[p], start |-> 2 * (p - 1), end |-> 2 * p - 1]]
        : t \in SeqsUpTo(RawTexts, MaxWords)}

(* Words that differ in timing. *)
TimedFlats ==
    {[p \in 1..Len(t) |-> [word |-> <<" ", "a">>, start |-> t[p][1], end |-> t[p][2]]]
        : t \in SeqsUpTo(TimePairs, MaxWords)}

Configs(Palettes) ==
    [number_of_words : 1..MaxGroup, highlight : BOOLEAN, text_colors : Palettes]

-----------------------------------------------------------------------------
(* The grouping loop, caption.py lines 752-907. *)

(* Mutation: no word is filtered out. *)
Skipped_Never(word) == FALSE

(* The word is skipped: `if not word or word.isspace(): continue`. *)
Skipped(word) == word = <<>> \/ IsSpace(word)

(* Mutation: the group is flushed one word late. *)
GroupFull_OffByOne(buf, cfg) == Len(buf) > cfg.number_of_words

(* `if len(word_buffer) >= config["number_of_words"]`. *)
GroupFull(buf, cfg) == Len(buf) >= cfg.number_of_words

(* `if config["highlight"] and config["number_of_words"] > 1`. *)
FullGroupHighlighted(buf, cfg) == cfg.highlight /\ cfg.number_of_words > 1

(* Mutation: the trailing group is highlighted whatever its length. *)
TrailingGroupHighlighted_AnyLength(buf, cfg) == cfg.highlight

(* `if config["highlight"] and len(word_buffer) > 1`. *)
TrailingGroupHighlighted(buf, cfg) == cfg.highlight /\ Len(buf) > 1

(* Mutation: every highlight clip gets the zoom transform. *)
HighlightZoom_Every(i) == TRUE

(* Only the first word's clip gets the zoom transform: `if i == 0`. *)
HighlightZoom(i) == i = 0

(* One clip per word of the group, create_highlighted_word_clip(word_buffer, i, ...),
   shown for the word's own interval.  `segment` records which iteration of the
   outer loop appended the clip. *)
HighlightClips(buf, starts, ends, s) ==
    [k \in 1..Len(buf) |->
        [text |-> buf, highlight |-> k - 1,
         start |-> starts[k], duration |-> ends[k] - starts[k],
         zoom |-> HighlightZoom(k - 1), color |-> NoColor, segment |-> s]]

(* group_start, group_end, duration of a buffer. *)
GroupStart(starts, ends) == starts[1]
GroupEnd_FirstWord(starts, ends) == ends[1]   \* mutation: the first word's end
GroupEnd(starts, ends) == ends[Len(ends)]
GroupDuration_EndOnly(starts, ends) == GroupEnd(starts, ends)   \* mutation: the end, not end - start
GroupDuration(starts, ends) == GroupEnd(starts, ends) - GroupStart(starts, ends)

(* One TextClip for the whole buffer, in the next palette color. *)
StandardClip(buf, starts, ends, color, s) ==
    [text |-> buf, highlight |-> None,
     start |-> GroupStart(starts, ends), duration |-> GroupDuration(starts, ends),
     zoom |-> TRUE, color |-> color, segment |-> s]

(* Mutation: the cycle is restarted at every use. *)
NextColor_First(cfg, n) == cfg.text_colors[1]

(* next(colors) on cycle(config["text_colors"]). *)
NextColor(cfg, n) == cfg.text_colors[n + 1]
Advance(cfg, n) == (n + 1) % Len(cfg.text_colors)

(* Mutation: the buffers are not reset at a segment boundary. *)
FreshBuffer_Keep(old) == old

(* The buffers a new segment starts with. *)
FreshBuffer(old) == <<>>

(* for segment in result["segments"]: reset the buffers. *)
BeginSegment ==
    /\ pc = "segments"
    /\ seg <= Len(result)
    /\ word_buffer' = FreshBuffer(word_buffer)
    /\ word_start_times' = FreshBuffer(word_start_times)
    /\ word_end_times' = FreshBuffer(word_end_times)
    /\ wi' = 1
    /\ pc' = "words"
    /\ UNCHANGED <<config, result, seg, subtitle_clips, colors>>
    /\ UNCHANGED <<run, font, conf, pos, zoom>>

(* One iteration of `for word_info in segment.get("words", [])`. *)
ProcessWord ==
    /\ pc = "words"
    /\ wi <= Len(result[seg])
    /\ LET word_info == result[seg][wi]
           word == Strip(word_info.word)
           buf == Append(word_buffer, word)
           starts == Append(word_start_times, word_info.start)
           ends == Append(word_end_times, word_info.end)
       IN  IF Skipped(word)
           THEN UNCHANGED <<word_buffer, word_start_times, word_end_times,
                            subtitle_clips, colors>>
           ELSE IF GroupFull(buf, config)
           THEN /\ IF FullGroupHighlighted(buf, config)
                   THEN /\ subtitle_clips' =
                              subtitle_clips \o HighlightClips(buf, starts, ends, seg)
                        /\ UNCHANGED colors
                   ELSE /\ subtitle_clips' =
                              Append(subtitle_clips,
                                     StandardClip(buf, starts, ends,
                                                  NextColor(config, colors), seg))
                        /\ colors' = Advance(config, colors)
                /\ word_buffer' = <<>>
                /\ word_start_times' = <<>>
                /\ word_end_times' = <<>>
           ELSE /\ word_buffer' = buf
                /\ word_start_times' = starts
                /\ word_end_times' = ends
                /\ UNCHANGED <<subtitle_clips, colors>>
    /\ wi' = wi + 1
    /\ UNCHANGED <<config, result, seg, pc>>
    /\ UNCHANGED <<run, font, conf, pos, zoom>>

(* The inner loop is exhausted: `if word_buffer:` flushes what remains.  The
   buffers are left as they are; the next segment resets them. *)
EndSegment ==
    /\ pc = "words"
    /\ wi > Len(result[seg])
    /\ IF word_buffer # <<>>
       THEN IF TrailingGroupHighlighted(word_buffer, config)
            THEN /\ subtitle_clips' =
                       subtitle_clips \o
                       HighlightClips(word_buffer, word_start_times, word_end_times, seg)
                 /\ UNCHANGED colors
            ELSE /\ subtitle_clips' =
                       Append(subtitle_clips,
                              StandardClip(word_buffer, word_start_times, word_end_times,
                                           NextColor(config, colors), seg))
                 /\ colors' = Advance(config, colors)
       ELSE UNCHANGED <<subtitle_clips, colors>>
    /\ seg' = seg + 1
    /\ pc' = "segments"
    /\ UNCHANGED <<config, result, wi, word_buffer, word_start_times, word_end_times>>
    /\ UNCHANGED <<run, font, conf, pos, zoom>>

(* The outer loop is exhausted: subtitle_clips goes to CompositeVideoClip. *)
EndLoop ==
    /\ pc = "segments"
    /\ seg > Len(result)
    /\ pc' = "done"
    /\ UNCHANGED <<config, result, seg, wi, word_buffer, word_start_times,
                   word_end_times, subtitle_clips, colors>>
    /\ UNCHANGED <<run, font, conf, pos, zoom>>

GrouperStart(cfg, transcript) ==
    /\ config = cfg
    /\ result = transcript
    /\ seg = 1
    /\ wi = 1
    /\ word_buffer = <<>>
    /\ word_start_times = <<>>
    /\ word_end_times = <<>>
    /\ subtitle_clips = <<>>
    /\ colors = 0
    /\ pc = "segments"
    /\ run = Idle
    /\ font = Idle
    /\ conf = Idle
    /\ pos = Idle
    /\ zoom = Idle

Palettes == {SubSeq(AllColors, 1, n) : n \in 1..MaxPalette}

Init ==
    \E cfg \in Configs(Palettes), t \in Transcripts(TextFlats) : GrouperStart(cfg, t)

InitTiming ==
    \E cfg \in Configs({DefaultColors}), t \in Transcripts(TimedFlats) :
        GrouperStart(cfg, t)

Next == BeginSegment \/ ProcessWord \/ EndSegment \/ EndLoop

Spec == Init /\ [][Next]_vars

SpecTiming == InitTiming /\ [][Next]_vars

-----------------------------------------------------------------------------
(* What the claims about the grouping loop are stated with. *)

Ceil(n, g) == (n + g - 1) \div g

(* The words of a segment whose trimmed text is non-empty, in order. *)
HasText(word_info) == Strip(word_info.word) # <<>>
Kept(segment) == SelectSeq(segment, HasText)
KeptWords(segment) == [i \in 1..Len(Kept(segment)) |-> Strip(Kept(segment)[i].word)]

RECURSIVE Flatten(_)
Flatten(ss) == IF ss = <<>> THEN <<>> ELSE Head(ss) \o Flatten(Tail(ss))

(* The groups a word sequence F falls into, g words each, the last one shorter. *)
GroupsOf(F, g) ==
    [j \in 1..Ceil(Len(F), g) |-> SubSeq(F, (j - 1) * g + 1, Min(j * g, Len(F)))]
GroupOfWord(F, g, p) == GroupsOf(F, g)[((p - 1) \div g) + 1]

(* The clips a segment's iteration appended, in order. *)
ClipsOf(s) == LET From(c) == c.segment = s IN SelectSeq(subtitle_clips, From)

(* A caption group shows as one standard clip or as a run of highlight clips that
   starts with highlight index 0. *)
OpensGroup(c) == c.highlight = None \/ c.highlight = 0
GroupTexts(clips) ==
    LET opened == SelectSeq(clips, OpensGroup)
    IN  [j \in 1..Len(opened) |-> opened[j].text]
IsStandard(c) == c.highlight = None
StandardClips == SelectSeq(subtitle_clips, IsStandard)

(* The segments whose iteration of the outer loop is over. *)
Finished == 1..(seg - 1)
G == config.number_of_words

-----------------------------------------------------------------------------
(* C1: with highlighting disabled, every segment emits exactly ceil(n / g) caption
   events, n being the number of its words whose trimmed text is non-empty (none
   when n = 0). *)
C1_EventsPerSegment ==
    ~config.highlight =>
        \A s \in Finished : Len(ClipsOf(s)) = Ceil(Len(Kept(result[s])), G)

C1_Witness ==
    /\ pc = "done" /\ ~config.highlight /\ G = 2
    /\ \E s \in Finished : Len(Kept(result[s])) = 3 /\ Len(ClipsOf(s)) = 2
    /\ \E s \in Finished : Len(Kept(result[s])) = 0 /\ Len(ClipsOf(s)) = 0

(* C2: the words of the emitted groups, concatenated in emission order, are the
   transcript's non-empty-after-trim words in transcript order; while the loop runs
   this holds of the words read so far, the buffered ones counted in. *)
WordsRead ==
    Flatten([s \in 1..Len(result) |->
        IF s \in Finished THEN KeptWords(result[s])
        ELSE IF s = seg /\ pc = "words" THEN KeptWords(SubSeq(result[s], 1, wi - 1))
        ELSE <<>>])

C2_WordsPreserved ==
    /\ Flatten(GroupTexts(subtitle_clips)) \o (IF pc = "words" THEN word_buffer ELSE <<>>)
         = WordsRead
    /\ pc = "done" =>
         Flatten(GroupTexts(subtitle_clips))
           = Flatten([s \in 1..Len(result) |-> KeptWords(result[s])])

C2_Witness ==
    /\ pc = "done" /\ Len(result) = 2 /\ G = 2
    /\ Len(Kept(result[1])) = 1 /\ Len(Kept(result[2])) = 1
    /\ \E i \in 1..Len(result[2]) : ~HasText(result[2][i])
    /\ Flatten(GroupTexts(subtitle_clips)) = <<<<"a">>, <<"b">>>>

(* C3: with highlighting on and g > 1, a group of more than one word (full or
   trailing) emits one event per word, in word order, the i-th with highlight
   index i, and only the one with i = 0 gets the zoom transition. *)
C3_HighlightEvents ==
    (config.highlight /\ G > 1) =>
        \A s \in Finished :
            LET F == KeptWords(result[s])
                E == ClipsOf(s)
            IN  /\ Len(E) = Len(F)
                /\ \A p \in 1..Len(F) :
                     Len(GroupOfWord(F, G, p)) > 1 =>
                        /\ E[p].text = GroupOfWord(F, G, p)
                        /\ E[p].highlight = (p - 1) % G
                        /\ E[p].zoom = ((p - 1) % G = 0)

C3_Witness ==
    /\ pc = "done" /\ config.highlight /\ G = 3
    /\ \E s \in Finished :
         /\ Len(Kept(result[s])) = 2
         /\ Len(ClipsOf(s)) = 2
         /\ ClipsOf(s)[2].highlight = 1

(* C5: the k-th standard (non-highlighted) clip of the run, k from 0 across all
   segments, has color palette[k mod len(palette)]; highlight clips take no palette
   color and do not advance the cycle. *)
C5_RoundRobin ==
    LET pal == config.text_colors
    IN  /\ \A k \in 1..Len(StandardClips) :
              StandardClips[k].color = pal[((k - 1) % Len(pal)) + 1]
        /\ \A i \in 1..Len(subtitle_clips) :
              subtitle_clips[i].highlight # None => subtitle_clips[i].color = NoColor
        /\ colors = Len(StandardClips) % Len(pal)

C5_Witness ==
    /\ pc = "done" /\ Len(config.text_colors) = 2
    /\ Len(StandardClips) = 3
    /\ StandardClips[1].segment # StandardClips[3].segment
    /\ StandardClips[2].color = config.text_colors[2]
    /\ StandardClips[3].color = config.text_colors[1]

(* C6: a group of exactly one word is one standard clip with the zoom transition
   and a palette color, whatever the highlight flag: with g = 1 every word is one,
   with g > 1 a one-word trailing group is one. *)
IsOneWord(c) == Len(c.text) = 1
C6_OneWordGroup ==
    /\ \A i \in 1..Len(subtitle_clips) :
          IsOneWord(subtitle_clips[i]) =>
             /\ subtitle_clips[i].highlight = None
             /\ subtitle_clips[i].zoom
             /\ \E k \in 1..Len(config.text_colors) :
                   subtitle_clips[i].color = config.text_colors[k]
    /\ \A s \in Finished :
          Len(SelectSeq(ClipsOf(s), IsOneWord))
            = LET n == Len(Kept(result[s]))
              IN  IF G = 1 THEN n ELSE IF n % G = 1 THEN 1 ELSE 0

C6_Witness ==
    /\ pc = "done" /\ config.highlight /\ G = 2
    /\ \E s \in Finished :
         /\ Len(Kept(result[s])) = 3
         /\ Len(ClipsOf(s)) = 3
         /\ ClipsOf(s)[3].highlight = None

(* C7: no group holds words of two segments: the buffer is empty when a segment's
   words start, whatever the segment before left in it, and the groups a segment
   emits are the consecutive g-word runs of its own filtered words. *)
C7_NoSpanning ==
    /\ (pc = "words" /\ wi = 1) => word_buffer = <<>>
    /\ \A s \in Finished : GroupTexts(ClipsOf(s)) = GroupsOf(KeptWords(result[s]), G)

C7_Witness ==
    /\ pc = "done" /\ Len(result) = 2 /\ G = 2
    /\ Len(Kept(result[1])) = 1
    /\ Len(Kept(result[2])) = 2
    /\ GroupTexts(ClipsOf(2)) = <<KeptWords(result[2])>>

(* C4: a standard clip starts at its group's first word and lasts until the end of
   the group's last word; a highlight clip starts at its own word and lasts that
   word's end - start; a word with start = end gives duration 0, unclamped. *)
C4_Timing ==
    \A s \in Finished :
        LET F == Kept(result[s])
            E == ClipsOf(s)
        IN  IF config.highlight /\ G > 1
            THEN /\ Len(E) = Len(F)
                 /\ \A p \in 1..Len(F) :
                      /\ E[p].start = F[p].start
                      /\ E[p].duration = F[p].end - F[p].start
                      /\ (E[p].highlight = None) = (Len(GroupOfWord(F, G, p)) = 1)
            ELSE /\ Len(E) = Ceil(Len(F), G)
                 /\ \A j \in 1..Len(E) :
                      /\ E[j].highlight = None
                      /\ E[j].start = F[(j - 1) * G + 1].start
                      /\ E[j].duration
                           = F[Min(j * G, Len(F))].end - F[(j - 1) * G + 1].start

C4_Witness ==
    /\ pc = "done" /\ config.highlight /\ G = 2
    /\ Len(subtitle_clips) = 3
    /\ subtitle_clips[1].highlight = 0 /\ subtitle_clips[1].start = 1
    /\ subtitle_clips[1].duration = 0
    /\ subtitle_clips[2].highlight = 1 /\ subtitle_clips[2].duration = 1
    /\ subtitle_clips[3].highlight = None /\ subtitle_clips[3].duration = 2

-----------------------------------------------------------------------------
(* add_captions_to_video from its first line to its last: which files and handles
   exist when the function is left.  Every call into MoviePy, Whisper or the file
   system either returns or raises; nothing in the function catches what is raised,
   so a raise leaves the function at once. *)

GrouperIdle ==
    /\ config = Idle /\ result = <<>> /\ seg = 0 /\ wi = 0
    /\ word_buffer = <<>> /\ word_start_times = <<>> /\ word_end_times = <<>>
    /\ subtitle_clips = <<>> /\ colors = 0 /\ pc = "idle"

RunStart(o, i, n) ==
    [pc |-> "load_video",
     overlay |-> o,          \* config["overlay"] is set and the overlay file exists
     intro |-> i,            \* config["has_intro_sound"] is set and the file exists
     pending |-> n,          \* caption clips still to be created
     temp_audio |-> FALSE,   \* temp_audio.wav exists
     handles |-> {},         \* opened and not closed clips
     extracting |-> FALSE,   \* write_audiofile has been called
     at |-> "none"]          \* the stage that raised

Raised(r, stage) == [r EXCEPT !.pc = "raised", !.at = stage]

(* What the two close() calls at the end release. *)
ClosedAtEnd == {"video", "final"}

(* video = VideoFileClip(input_video_path) *)
LoadVideo ==
    /\ run.pc = "load_video"
    /\ \E ok \in BOOLEAN :
         run' = IF ok THEN [run EXCEPT !.pc = "overlay", !.handles = @ \cup {"video"}]
                ELSE Raised(run, "load_video")
    /\ UNCHANGED <<grouperVars, font, conf, pos, zoom>>

(* The overlay clip is opened, resized and composited. *)
AddOverlay ==
    /\ run.pc = "overlay"
    /\ IF run.overlay
       THEN \E outcome \in {"ok", "open_raises", "compose_raises"} :
              run' = CASE outcome = "ok" ->
                            [run EXCEPT !.pc = "intro", !.handles = @ \cup {"overlay"}]
                       [] outcome = "open_raises" ->
                            Raised(run, "overlay")
                       [] outcome = "compose_raises" ->
                            Raised([run EXCEPT !.handles = @ \cup {"overlay"}],
                                                   "overlay")
       ELSE run' = [run EXCEPT !.pc = "intro"]
    /\ UNCHANGED <<grouperVars, font, conf, pos, zoom>>

(* The intro sound is opened and mixed in. *)
AddIntroSound ==
    /\ run.pc = "intro"
    /\ IF run.intro
       THEN \E outcome \in {"ok", "open_raises", "mix_raises"} :
              run' = CASE outcome = "ok" ->
                            [run EXCEPT !.pc = "extract", !.handles = @ \cup {"intro"}]
                       [] outcome = "open_raises" ->
                            Raised(run, "intro")
                       [] outcome = "mix_raises" ->
                            Raised([run EXCEPT !.handles = @ \cup {"intro"}],
                                                   "intro")
       ELSE run' = [run EXCEPT !.pc = "extract"]
    /\ UNCHANGED <<grouperVars, font, conf, pos, zoom>>

(* video.audio.write_audiofile(temp_audio): a failed write may leave the file. *)
ExtractAudio ==
    /\ run.pc = "extract"
    /\ \E outcome \in {"ok", "raises_without_file", "raises_with_file"} :
         LET started == [run EXCEPT !.extracting = TRUE]
         IN  run' = CASE outcome = "ok" ->
                           [started EXCEPT !.pc = "transcribe", !.temp_audio = TRUE]
                      [] outcome = "raises_without_file" ->
                           Raised(started, "extract")
                      [] outcome = "raises_with_file" ->
                           Raised([started EXCEPT !.temp_audio = TRUE],
                                                  "extract")
    /\ UNCHANGED <<grouperVars, font, conf, pos, zoom>>

(* whisper.load_model("base") and model.transcribe(temp_audio, ...) *)
Transcribe ==
    /\ run.pc = "transcribe"
    /\ \E ok \in BOOLEAN :
         run' = IF ok THEN [run EXCEPT !.pc = "remove"]
                ELSE Raised(run, "transcribe")
    /\ UNCHANGED <<grouperVars, font, conf, pos, zoom>>

(* os.remove(temp_audio) *)
RemoveTempAudio ==
    /\ run.pc = "remove"
    /\ run' = [run EXCEPT !.pc = "font", !.temp_audio = FALSE]
    /\ UNCHANGED <<grouperVars, font, conf, pos, zoom>>

(* font_path = ensure_font_exists(config["font"]); os.path.exists(font_path).
   ensure_font_exists can leave through sys.exit and can return None. *)
ResolveFont ==
    /\ run.pc = "font"
    /\ \E ok \in BOOLEAN :
         run' = IF ok THEN [run EXCEPT !.pc = "render"]
                ELSE Raised(run, "font")
    /\ UNCHANGED <<grouperVars, font, conf, pos, zoom>>

(* One TextClip or highlighted ImageClip is created in the grouping loop. *)
RenderClip ==
    /\ run.pc = "render"
    /\ run.pending > 0
    /\ \E ok \in BOOLEAN :
         run' = IF ok THEN [run EXCEPT !.pending = @ - 1]
                ELSE Raised(run, "render")
    /\ UNCHANGED <<grouperVars, font, conf, pos, zoom>>

(* final_video = CompositeVideoClip([video] + subtitle_clips) *)
Compose ==
    /\ run.pc = "render"
    /\ run.pending = 0
    /\ run' = [run EXCEPT !.pc = "write", !.handles = @ \cup {"final"}]
    /\ UNCHANGED <<grouperVars, font, conf, pos, zoom>>

(* final_video.write_videofile(output_path, ...) *)
WriteOutput ==
    /\ run.pc = "write"
    /\ \E ok \in BOOLEAN :
         run' = IF ok THEN [run EXCEPT !.pc = "close"]
                ELSE Raised(run, "write")
    /\ UNCHANGED <<grouperVars, font, conf, pos, zoom>>

(* video.close(); final_video.close() *)
CloseClips ==
    /\ run.pc = "close"
    /\ run' = [run EXCEPT !.pc = "returned", !.handles = @ \ ClosedAtEnd]
    /\ UNCHANGED <<grouperVars, font, conf, pos, zoom>>

InitRun ==
    /\ GrouperIdle
    /\ \E o \in BOOLEAN, i \in BOOLEAN, n \in 0..MaxClips : run = RunStart(o, i, n)
    /\ font = Idle
    /\ conf = Idle
    /\ pos = Idle
    /\ zoom = Idle

NextRun ==
    \/ LoadVideo \/ AddOverlay \/ AddIntroSound \/ ExtractAudio \/ Transcribe
    \/ RemoveTempAudio \/ ResolveFont \/ RenderClip \/ Compose \/ WriteOutput
    \/ CloseClips

SpecRun == InitRun /\ [][NextRun]_vars

(* C8: on every exit path after audio extraction has started, raising paths
   included, temp_audio.wav has been deleted and every opened handle closed by the
   time the function is left. *)
RunLeft == run.pc \in {"returned", "raised"}

C8_CleanupOnEveryExit ==
    (RunLeft /\ run.extracting) => (~run.temp_audio /\ run.handles = {})

(* What does hold: a run without overlay and intro sound that returns has removed
   the file and closed both clips. *)
C8_PlainSuccessIsClean ==
    (run.pc = "returned" /\ ~run.overlay /\ ~run.intro) =>
        (~run.temp_audio /\ run.handles = {})

-----------------------------------------------------------------------------
(* ensure_font_exists (caption.py) and download_font (fontify.py). *)

FontNames == {"Roboto-Black.ttf", "Arial", "Anton"}

(* `if not font_name.lower().endswith(('.ttf', '.otf')): font_name += ".ttf"` *)
HasFontExtension(n) == n \in {"Roboto-Black.ttf"}
WithExtension(n) ==
    IF HasFontExtension(n) THEN n
    ELSE CASE n = "Arial" -> "Arial.ttf"
           [] n = "Anton" -> "Anton.ttf"

(* font_name.lower().replace('-', '').replace(' ', '') *)
AlternativesKey(n) ==
    CASE n = "Roboto-Black.ttf" -> "robotoblack.ttf"
      [] n = "Arial.ttf" -> "arial.ttf"
      [] n = "Anton.ttf" -> "anton.ttf"

(* The table of proprietary fonts and their free alternatives. *)
Alternatives ==
    [k \in {"arial", "arial.ttf", "helvetica", "helvetica.ttf", "times", "times.ttf",
            "times new roman", "timesnewroman.ttf", "courier", "courier.ttf",
            "courier new", "couriernew.ttf"} |->
        IF k \in {"arial", "arial.ttf", "helvetica", "helvetica.ttf"} THEN "DejaVuSans.ttf"
        ELSE IF k \in {"times", "times.ttf", "times new roman", "timesnewroman.ttf"}
             THEN "DejaVuSerif.ttf"
        ELSE "DejaVuSansMono.ttf"]

IsProprietary_Never(n) == FALSE    \* mutation: the table is never consulted
IsProprietary(n) == AlternativesKey(n) \in DOMAIN Alternatives

(* What download_font does with each answer of the network. *)
DownloadAnswers ==
    {"network_error", "css_not_200", "css_without_url", "file_not_200", "saved"}

(* requests.get raises: an Exception leaves download_font. *)
DownloadRaises(answer) == answer = "network_error"
(* `sys.exit(1)`: SystemExit leaves download_font. *)
DownloadExits(answer) == answer \in {"css_not_200", "css_without_url"}
(* `return`: the font file could not be fetched, the result is None. *)
DownloadReturnsNone(answer) == answer = "file_not_200"

(* `except Exception` catches an Exception and lets SystemExit through. *)
CaughtByExceptException(kind) == kind = "Exception"

FontStart(n) ==
    [pc |-> "local",
     name |-> WithExtension(n),
     font_path |-> "requested",    \* fonts_dir/font_name until reassigned
     ret |-> "unset",
     local |-> "untried", alt |-> "untried", exact |-> "untried",
     download |-> "untried", dejavu |-> "untried", roboto |-> "untried"]

Returned(f, path) == [f EXCEPT !.pc = "returned", !.ret = path]

(* `if os.path.exists(font_path): return font_path` *)
FontLocal ==
    /\ font.pc = "local"
    /\ \E exists \in BOOLEAN :
         font' = IF exists THEN Returned([font EXCEPT !.local = "exists"], font.font_path)
                 ELSE [font EXCEPT !.pc = "substitute", !.local = "absent"]
    /\ UNCHANGED <<grouperVars, run, conf, pos, zoom>>

(* `if is_proprietary:` the system font directories are walked for the free
   alternative, which is copied to font_path. *)
FontSubstitute ==
    /\ font.pc = "substitute"
    /\ IF IsProprietary(font.name)
       THEN \E found \in {"absent", "copied", "copy_raises"} :
              font' = IF found = "copied"
                      THEN Returned([font EXCEPT !.alt = found], font.font_path)
                      ELSE [font EXCEPT !.pc = "scan", !.alt = found]
       ELSE font' = [font EXCEPT !.pc = "scan"]
    /\ UNCHANGED <<grouperVars, run, conf, pos, zoom>>

(* The system font directories are walked for the requested font itself. *)
FontSystemScan ==
    /\ font.pc = "scan"
    /\ \E found \in {"absent", "copied", "copy_raises"} :
         font' = IF found = "copied"
                 THEN Returned([font EXCEPT !.exact = found], font.font_path)
                 ELSE [font EXCEPT !.pc = "download", !.exact = found]
    /\ UNCHANGED <<grouperVars, run, conf, pos, zoom>>

(* `font_path = download_font(font_file)` inside try/except Exception. *)
FontDownload ==
    /\ font.pc = "download"
    /\ \E answer \in DownloadAnswers :
         LET f == [font EXCEPT !.download = answer]
         IN  font' =
               IF DownloadExits(answer)
               THEN IF CaughtByExceptException("SystemExit")
                    THEN [f EXCEPT !.pc = "direct"]
                    ELSE [f EXCEPT !.pc = "exited"]
               ELSE IF DownloadRaises(answer)
               THEN IF CaughtByExceptException("Exception")
                    THEN [f EXCEPT !.pc = "direct"]
                    ELSE [f EXCEPT !.pc = "raised"]
               ELSE IF DownloadReturnsNone(answer)
               THEN [f EXCEPT !.pc = "direct", !.font_path = "None"]
               ELSE Returned([f EXCEPT !.font_path = "downloaded"], "downloaded")
    /\ UNCHANGED <<grouperVars, run, conf, pos, zoom>>

(* "Trying direct download as fallback...": the DejaVu archive of a proprietary
   font, unless the alternative is already in the fonts directory. *)
FontDirectDownload ==
    /\ font.pc = "direct"
    /\ IF IsProprietary(font.name)
       THEN \E outcome \in {"already_local", "network_error", "not_200", "not_in_zip",
                            "saved"} :
              font' = IF outcome = "saved"
                      THEN Returned([font EXCEPT !.dejavu = outcome, !.font_path = "dejavu"],
                                    "dejavu")
                      ELSE [font EXCEPT !.pc = "fallback", !.dejavu = outcome]
       ELSE font' = [font EXCEPT !.pc = "fallback"]
    /\ UNCHANGED <<grouperVars, run, conf, pos, zoom>>

(* "Using Roboto as final fallback": Roboto-Regular.ttf if it is there or can be
   fetched, else font_path as it stands. *)
FontFallback ==
    /\ font.pc = "fallback"
    /\ \E outcome \in {"already_local", "network_error", "not_200", "saved"} :
         font' = IF outcome \in {"already_local", "saved"}
                 THEN Returned([font EXCEPT !.roboto = outcome], "roboto")
                 ELSE Returned([font EXCEPT !.roboto = outcome], font.font_path)
    /\ UNCHANGED <<grouperVars, run, conf, pos, zoom>>

InitFont ==
    /\ GrouperIdle
    /\ run = Idle
    /\ \E n \in FontNames : font = FontStart(n)
    /\ conf = Idle
    /\ pos = Idle
    /\ zoom = Idle

NextFont ==
    \/ FontLocal \/ FontSubstitute \/ FontSystemScan \/ FontDownload
    \/ FontDirectDownload \/ FontFallback

SpecFont == InitFont /\ [][NextFont]_vars

(* C9: font resolution never fails the run: whatever the remote download answers,
   ensure_font_exists returns a path, it neither ends the process nor raises, and a
   failed download falls through to the later stages. *)
C9_FontNeverFails ==
    /\ font.pc \notin {"exited", "raised"}
    /\ font.pc = "returned" => font.ret # "None"
    /\ font.download \in (DownloadAnswers \ {"saved"}) =>
          font.pc \in {"direct", "fallback", "returned"}

(* What does hold: a network exception and a failed font-file download fall
   through to the later stages. *)
C9_CaughtFailuresFallThrough ==
    font.download \in {"network_error", "file_not_200"} =>
        font.pc \in {"direct", "fallback", "returned"}

-----------------------------------------------------------------------------
(* load_config.  A TOML value is a record: its Python type k, its number v in
   hundredths (a list's length for a list), its text s. *)

Num(x) == [k |-> "num", v |-> 100 * x, s |-> ""]          \* an int or a float
Hundredths(h) == [k |-> "num", v |-> h, s |-> ""]
NaN == [k |-> "nan", v |-> 0, s |-> ""]                    \* TOML nan
PosInf == [k |-> "inf", v |-> 1, s |-> ""]                 \* TOML inf
NegInf == [k |-> "inf", v |-> 0 - 1, s |-> ""]             \* TOML -inf
Str(t) == [k |-> "str", v |-> 0, s |-> t]
Bool(b) == [k |-> "bool", v |-> IF b THEN 100 ELSE 0, s |-> ""]
List(n, tag) == [k |-> "list", v |-> n, s |-> tag]
PyNone == [k |-> "none", v |-> 0, s |-> ""]
Absent == [k |-> "absent", v |-> 0, s |-> ""]              \* the key is not in the file

KeySeq ==
    <<"number_of_words", "font", "font_size", "text_align", "text_colors",
      "stroke_width", "bg_color", "margin", "transition", "highlight",
      "overlay_opacity">>
Keys == {KeySeq[i] : i \in 1..Len(KeySeq)}

default_config ==
    [key \in Keys |->
        CASE key = "number_of_words" -> Num(1)
          [] key = "font" -> Str("Roboto-Black.ttf")
          [] key = "font_size" -> Num(100)
          [] key = "text_align" -> Str("center")
          [] key = "text_colors" -> List(3, "default")
          [] key = "stroke_width" -> Num(6)
          [] key = "bg_color" -> Str("none")
          [] key = "margin" -> List(2, "default")
          [] key = "transition" -> Bool(TRUE)
          [] key = "highlight" -> Bool(FALSE)
          [] key = "overlay_opacity" -> Hundredths(50)]

(* The values a modelled file gives a key. *)
Choices(key) ==
    CASE key = "number_of_words" -> {Num(0), Num(3), NaN, Str("two")}
      [] key = "font" -> {Str("Arial")}
      [] key = "font_size" -> {Num(1000), Num(5), Num(48), NaN, Str("big")}
      [] key = "text_align" -> {Str("left"), Str("justify"), Num(1)}
      [] key = "text_colors" -> {List(0, "user"), List(2, "user"), Str("#FFFFFF")}
      [] key = "stroke_width" -> {Num(0 - 5), Num(25), Num(3), NaN, Str("thick")}
      [] key = "bg_color" -> {Str("none"), Str("NONE"), Str("#000000"), Num(0)}
      [] key = "margin" -> {List(2, "user"), List(3, "user"), Num(40)}
      [] key = "transition" -> {Bool(FALSE), Str("no")}
      [] key = "highlight" -> {Bool(TRUE), Str("yes"), Num(1)}
      [] key = "overlay_opacity" ->
            {Num(0 - 1), Num(2), Hundredths(25), NaN, PosInf, NegInf, Str("half")}

(* The files that set at most `budget` of the keys from the i-th on. *)
RECURSIVE DocsFrom(_, _)
DocsFrom(i, budget) ==
    IF i > Len(KeySeq) THEN {<<>>}
    ELSE {<<Absent>> \o d : d \in DocsFrom(i + 1, budget)}
         \cup (IF budget = 0 THEN {}
               ELSE {<<x>> \o d : x \in Choices(KeySeq[i]), d \in DocsFrom(i + 1, budget - 1)})

KeyIndex(key) == CHOOSE i \in 1..Len(KeySeq) : KeySeq[i] = key
Docs == {[key \in Keys |-> d[KeyIndex(key)]] : d \in DocsFrom(1, MaxKeys)}

(* Python's <, > between a config value and an int: a TypeError for a str, a list or
   None; False whenever the value is nan. *)
Comparable(x) == x.k \in {"num", "bool", "nan", "inf"}
Less(x, c) ==
    CASE x.k \in {"num", "bool"} -> x.v < 100 * c
      [] x.k = "nan" -> FALSE
      [] x.k = "inf" -> x.v < 0
Greater(x, c) ==
    CASE x.k \in {"num", "bool"} -> x.v > 100 * c
      [] x.k = "nan" -> FALSE
      [] x.k = "inf" -> x.v > 0

(* max(lo, min(hi, x)) *)
PyMin(hi, x) == IF Less(x, hi) THEN x ELSE Num(hi)
PyMax(lo, x) == IF Greater(x, lo) THEN x ELSE Num(lo)
Clamp(lo, hi, x) == PyMax(lo, PyMin(hi, x))

(* str.lower() of the bg_color texts. *)
Lower(t) == IF t = "NONE" THEN "none" ELSE t

(* `for key, value in default_config.items(): if key not in config: ...` *)
FillMissing(doc, key) == IF doc[key] = Absent THEN default_config[key] ELSE doc[key]
FillDefaults(doc) == [key \in Keys |-> FillMissing(doc, key)]

(* The checks of the validation, one per field. *)
NumberOfWords(x) == IF Less(x, 1) THEN Num(1) ELSE x
FontSize(x) == IF Less(x, 10) \/ Greater(x, 500) THEN Clamp(10, 500, x) ELSE x
TextAlign(x) == IF x \notin {Str("left"), Str("center"), Str("right")} THEN Str("center") ELSE x
TextColors(x) == IF x.k # "list" \/ x.v = 0 THEN default_config["text_colors"] ELSE x
StrokeWidth(x) == IF Less(x, 0) \/ Greater(x, 20) THEN Clamp(0, 20, x) ELSE x
BgColor(x) == IF Lower(x.s) = "none" THEN PyNone ELSE x
Margin(x) == IF x.k # "list" \/ x.v # 2 THEN default_config["margin"] ELSE x
Flag(x, key) == IF x.k # "bool" THEN default_config[key] ELSE x
OverlayOpacity(x) == IF Less(x, 0) \/ Greater(x, 1) THEN Clamp(0, 1, x) ELSE x

(* A check raises: a comparison with a str or a list, .lower() of a non-str. *)
ValidationRaises(c) ==
    \/ ~Comparable(c["number_of_words"])
    \/ ~Comparable(c["font_size"])
    \/ ~Comparable(c["stroke_width"])
    \/ c["bg_color"].k # "str"
    \/ ~Comparable(c["overlay_opacity"])

Validated(c) ==
    [key \in Keys |->
        CASE key = "number_of_words" -> NumberOfWords(c[key])
          [] key = "font_size" -> FontSize(c[key])
          [] key = "text_align" -> TextAlign(c[key])
          [] key = "text_colors" -> TextColors(c[key])
          [] key = "stroke_width" -> StrokeWidth(c[key])
          [] key = "bg_color" -> BgColor(c[key])
          [] key = "margin" -> Margin(c[key])
          [] key = "transition" -> Flag(c[key], key)
          [] key = "highlight" -> Flag(c[key], key)
          [] key = "overlay_opacity" -> OverlayOpacity(c[key])
          [] OTHER -> c[key]]

(* The whole call: the file is opened and parsed, the keys are filled in and
   validated; FileNotFoundError and every other Exception return default_config. *)
LoadConfig ==
    /\ conf.pc = "call"
    /\ conf' =
         IF conf.file = "missing"
         THEN [conf EXCEPT !.pc = "returned", !.path = "not_found", !.out = default_config]
         ELSE IF conf.file = "unparsable" \/ ValidationRaises(FillDefaults(conf.doc))
         THEN [conf EXCEPT !.pc = "returned", !.path = "error", !.out = default_config]
         ELSE [conf EXCEPT !.pc = "returned", !.path = "validated",
                           !.out = Validated(FillDefaults(conf.doc))]
    /\ UNCHANGED <<grouperVars, run, font, pos, zoom>>

ConfStart(file, doc) ==
    [pc |-> "call", file |-> file, doc |-> doc, path |-> "none", out |-> doc]

InitConfig ==
    /\ GrouperIdle
    /\ run = Idle
    /\ font = Idle
    /\ pos = Idle
    /\ zoom = Idle
    /\ \/ \E file \in {"missing", "unparsable"} :
            conf = ConfStart(file, [key \in Keys |-> Absent])
       \/ \E doc \in Docs : conf = ConfStart("parsed", doc)

NextConfig == LoadConfig

SpecConfig == InitConfig /\ [][NextConfig]_vars

-----------------------------------------------------------------------------
(* What the claims about load_config are stated with. *)
NumericKeys == {"number_of_words", "font_size", "stroke_width", "overlay_opacity"}
IsNumber(x) == x.k \in {"num", "nan", "inf"}
AtLeast(x, lo) == x.k = "num" /\ x.v >= 100 * lo
Within(x, lo, hi) == x.k = "num" /\ 100 * lo <= x.v /\ x.v <= 100 * hi

(* The file gives the numeric fields numbers and the other fields values of their
   own type. *)
WellTyped(key, x) ==
    CASE key \in NumericKeys -> IsNumber(x)
      [] key \in {"text_colors", "margin"} -> x.k = "list"
      [] key \in {"transition", "highlight"} -> x.k = "bool"
      [] OTHER -> x.k = "str"
NumericFile ==
    /\ conf.file = "parsed"
    /\ \A key \in Keys : conf.doc[key] = Absent \/ WellTyped(key, conf.doc[key])

InRanges(out) ==
    /\ AtLeast(out["number_of_words"], 1)
    /\ Within(out["font_size"], 10, 500)
    /\ out["text_align"] \in {Str("left"), Str("center"), Str("right")}
    /\ Within(out["stroke_width"], 0, 20)
    /\ out["text_colors"].k = "list" /\ out["text_colors"].v > 0
    /\ out["margin"].k = "list" /\ out["margin"].v = 2
    /\ out["highlight"].k = "bool"
    /\ out["transition"].k = "bool"
    /\ Within(out["overlay_opacity"], 0, 1)

(* C10: for any numeric values read from a config file the returned configuration
   has number_of_words >= 1, 10 <= font_size <= 500, text_align one of left, center,
   right, 0 <= stroke_width <= 20, a non-empty text_colors list, a two-element
   margin, boolean highlight and transition and 0 <= overlay_opacity <= 1; font_size
   1000 becomes 500, number_of_words 0 becomes 1, stroke_width -5 becomes 0. *)
C10_ValidatedRanges ==
    (conf.pc = "returned" /\ NumericFile) =>
        /\ InRanges(conf.out)
        /\ conf.doc["font_size"] = Num(1000) => conf.out["font_size"] = Num(500)
        /\ conf.doc["number_of_words"] = Num(0) => conf.out["number_of_words"] = Num(1)
        /\ conf.doc["stroke_width"] = Num(0 - 5) => conf.out["stroke_width"] = Num(0)

(* What does hold: the same for every file that holds no nan. *)
HoldsNaN == \E key \in Keys : conf.doc[key] = NaN
C10_RangesWithoutNaN ==
    (conf.pc = "returned" /\ NumericFile /\ ~HoldsNaN) =>
        /\ InRanges(conf.out)
        /\ conf.doc["font_size"] = Num(1000) => conf.out["font_size"] = Num(500)
        /\ conf.doc["number_of_words"] = Num(0) => conf.out["number_of_words"] = Num(1)
        /\ conf.doc["stroke_width"] = Num(0 - 5) => conf.out["stroke_width"] = Num(0)

C10_ClampedCase ==
    /\ conf.pc = "returned" /\ NumericFile /\ ~HoldsNaN
    /\ conf.doc["font_size"] = Num(1000) /\ conf.doc["stroke_width"] = Num(0 - 5)

(* A value of the wrong type for a field whose validation compares it or calls a
   string method on it: text where a number belongs, anything but text for
   bg_color. *)
WrongTyped(key, x) ==
    \/ key \in NumericKeys /\ x.k = "str"
    \/ key = "bg_color" /\ x.k \notin {"str", "absent"}
WrongTypedKeys(doc) == {key \in Keys : WrongTyped(key, doc[key])}

(* A value the user supplied that validation has no reason to change. *)
ValidValue(key, x) ==
    CASE key = "number_of_words" -> AtLeast(x, 1)
      [] key = "font_size" -> Within(x, 10, 500)
      [] key = "stroke_width" -> Within(x, 0, 20)
      [] key = "overlay_opacity" -> Within(x, 0, 1)
      [] key = "text_align" -> x \in {Str("left"), Str("center"), Str("right")}
      [] key = "text_colors" -> x.k = "list" /\ x.v > 0
      [] key = "margin" -> x.k = "list" /\ x.v = 2
      [] key \in {"transition", "highlight"} -> x.k = "bool"
      [] key = "bg_color" -> x.k = "str" /\ x.s \notin {"none", "NONE"}
      [] OTHER -> x.k = "str"

(* The default a field falls back to; "none" for bg_color stands for no
   background and is returned as None once validation has run. *)
SafeDefaults(key) ==
    IF key = "bg_color" THEN {default_config[key], PyNone} ELSE {default_config[key]}

(* C11: when the file gives one validated field a value of the wrong type (text for
   number_of_words, font_size, stroke_width or overlay_opacity, or a non-text
   bg_color), load_config returns, that field holds its safe default, and every
   other field the file gave a valid value is returned with the file's value. *)
C11_LocalRecovery ==
    (conf.pc = "returned" /\ conf.file = "parsed") =>
        \A bad \in Keys :
            WrongTypedKeys(conf.doc) = {bad} =>
                /\ conf.out[bad] \in SafeDefaults(bad)
                /\ \A key \in Keys \ {bad} :
                      ValidValue(key, conf.doc[key]) => conf.out[key] = conf.doc[key]

(* What does hold: such a file is answered, and answered with default_config as a
   whole. *)
C11_WholeDefaults ==
    (conf.pc = "returned" /\ conf.file = "parsed" /\ WrongTypedKeys(conf.doc) # {}) =>
        conf.path = "error" /\ conf.out = default_config

(* C12: load_config gives every key missing from the file its default and leaves the
   keys that are present and valid unchanged; a missing file returns default_config;
   a file without text_colors returns the three default colors. *)
C12_FillsMissing ==
    conf.pc = "returned" =>
        /\ conf.file = "missing" => conf.out = default_config
        /\ conf.file = "parsed" =>
              /\ \A key \in Keys :
                    /\ conf.doc[key] = Absent => conf.out[key] \in SafeDefaults(key)
                    /\ ValidValue(key, conf.doc[key]) => conf.out[key] = conf.doc[key]
              /\ conf.doc["text_colors"] = Absent =>
                    conf.out["text_colors"] = List(3, "default")

(* What does hold: the same for every file that gives no validated field a value of
   the wrong type. *)
C12_FillsMissingWellTyped ==
    (conf.pc = "returned" /\ WrongTypedKeys(conf.doc) = {}) =>
        /\ conf.file = "missing" => conf.out = default_config
        /\ conf.file = "parsed" =>
              /\ \A key \in Keys :
                    /\ conf.doc[key] = Absent => conf.out[key] \in SafeDefaults(key)
                    /\ ValidValue(key, conf.doc[key]) => conf.out[key] = conf.doc[key]
              /\ conf.doc["text_colors"] = Absent =>
                    conf.out["text_colors"] = List(3, "default")

-----------------------------------------------------------------------------
(* parse_position.  A position as config.toml can give it: nothing, text, a
   number, a boolean, a table, or a list of such values.  Numbers are in
   hundredths, as in load_config. *)
PNone == [k |-> "none"]
PStr(t) == [k |-> "str", s |-> t]
PNum(h) == [k |-> "num", v |-> h]
PNaN == [k |-> "nan"]
PInf == [k |-> "inf"]
PBool(b) == [k |-> "bool", v |-> IF b THEN 100 ELSE 0]     \* True == 1, False == 0
PDict == [k |-> "dict"]
PList(items) == [k |-> "list", items |-> items]

(* What a returned tuple holds: 'center', an int, or a float in hundredths. *)
Center == [k |-> "center", v |-> 0]
Pixel(n) == [k |-> "int", v |-> n]
Fraction(h) == [k |-> "float", v |-> h]

(* The characters of the texts a modelled list holds. *)
Chars(t) ==
    CASE t = "50%" -> <<"5", "0", "%">>
      [] t = "25%" -> <<"2", "5", "%">>
      [] t = "100%" -> <<"1", "0", "0", "%">>
      [] t = "0%" -> <<"0", "%">>
      [] t = "150%" -> <<"1", "5", "0", "%">>
      [] t = "50%%" -> <<"5", "0", "%", "%">>
      [] t = "%" -> <<"%">>
      [] t = "50" -> <<"5", "0">>
      [] t = "x%" -> <<"x", "%">>
      [] OTHER -> <<"?">>

(* val.endswith('%'), val.rstrip('%') *)
EndsWithPercent(c) == Len(c) > 0 /\ c[Len(c)] = "%"
RECURSIVE RStripPercent(_)
RStripPercent(c) ==
    IF EndsWithPercent(c) THEN RStripPercent(SubSeq(c, 1, Len(c) - 1)) ELSE c

(* float(text) for a run of decimal digits, in hundredths; any other modelled
   text makes float() raise ValueError. *)
DigitValue(ch) ==
    CASE ch = "0" -> 0 [] ch = "1" -> 1 [] ch = "2" -> 2 [] ch = "3" -> 3
      [] ch = "4" -> 4 [] ch = "5" -> 5 [] ch = "6" -> 6 [] ch = "7" -> 7
      [] ch = "8" -> 8 [] ch = "9" -> 9 [] OTHER -> None
IsFloatText(c) == Len(c) > 0 /\ \A i \in 1..Len(c) : DigitValue(c[i]) # None
RECURSIVE DigitsValue(_)
DigitsValue(c) ==
    IF c = <<>> THEN 0
    ELSE 10 * DigitsValue(SubSeq(c, 1, Len(c) - 1)) + DigitValue(c[Len(c)])
Float(c) == 100 * DigitsValue(c)

(* int(x) of a number of hundredths n / d: truncation toward zero. *)
Trunc(n, d) == IF n >= 0 THEN n \div d ELSE 0 - ((0 - n) \div d)

(* `0 <= val <= 1` *)
InUnitInterval_Open(h) == 0 <= h /\ h < 100        \* mutation: 1 is left out
InUnitInterval(h) == 0 <= h /\ h <= 100

(* convert_to_pixel: the exception it raises, "none" if it returns.  int(nan)
   raises ValueError and int(inf) OverflowError, nan and inf failing the test
   `0 <= val <= 1`. *)
ConvertError(val) ==
    CASE val.k = "str" ->
           IF EndsWithPercent(Chars(val.s)) /\ IsFloatText(RStripPercent(Chars(val.s)))
           THEN "none" ELSE "ValueError"
      [] val.k \in {"num", "bool"} -> "none"
      [] val.k = "nan" -> "ValueError"
      [] val.k = "inf" -> "OverflowError"
      [] OTHER -> "ValueError"

(* convert_to_pixel: the int it returns when it returns. *)
convert_to_pixel(val, total_size) ==
    IF val.k = "str"
    THEN Trunc((Float(RStripPercent(Chars(val.s))) \div 100) * total_size, 100)
    ELSE IF InUnitInterval(val.v) THEN Trunc(val.v * total_size, 100)
    ELSE Trunc(val.v, 100)

PredefinedNames ==
    {"top", "bottom", "top-left", "top-right", "bottom-left", "bottom-right"}
predefined_positions(name) ==
    CASE name = "top" -> <<Center, Fraction(10)>>
      [] name = "bottom" -> <<Center, Fraction(90)>>
      [] name = "top-left" -> <<Fraction(10), Fraction(10)>>
      [] name = "top-right" -> <<Fraction(90), Fraction(10)>>
      [] name = "bottom-left" -> <<Fraction(10), Fraction(90)>>
      [] name = "bottom-right" -> <<Fraction(90), Fraction(90)>>

(* `except Exception` around the two conversions: ValueError and OverflowError
   are Exceptions. *)
PositionCaught_ValueError(kind) == kind = "ValueError"   \* mutation: except ValueError
PositionCaught(kind) == kind \in {"ValueError", "OverflowError"}

(* The call's outcome: the tuple returned, or the exception that leaves it. *)
PosReturn(x, y) == [raised |-> "none", ret |-> <<x, y>>]
PosRaise(kind) == [raised |-> kind, ret |-> <<>>]

parse_position(position, video_width, video_height) ==
    IF position.k = "none" \/ position = PStr("center")
    THEN PosReturn(Center, Center)
    ELSE IF position.k = "str" /\ position.s \in PredefinedNames
    THEN LET p == predefined_positions(position.s) IN PosReturn(p[1], p[2])
    ELSE IF position.k = "list" /\ Len(position.items) = 2
    THEN LET x == position.items[1]
             y == position.items[2]
             err == IF ConvertError(x) # "none" THEN ConvertError(x)
                    ELSE ConvertError(y)
         IN  IF err = "none"
             THEN PosReturn(Center, Pixel(convert_to_pixel(y, video_height)))
             ELSE IF PositionCaught(err) THEN PosReturn(Center, Center)
             ELSE PosRaise(err)
    ELSE PosReturn(Center, Center)

(* The inputs of the modelled calls. *)
Components ==
    {PStr("50%"), PStr("25%"), PStr("100%"), PStr("0%"), PStr("150%"), PStr("50%%"),
     PStr("%"), PStr("50"), PStr("x%"),
     PNum(0), PNum(25), PNum(50), PNum(100), PNum(150), PNum(12000), PNum(0 - 50),
     PNum(0 - 250), PNaN, PInf, PBool(TRUE), PNone, PList(<<>>)}
Positions ==
    {PNone, PDict, PNum(50), PBool(TRUE), PStr("center"), PStr("middle"), PStr("50%")}
    \cup {PStr(n) : n \in PredefinedNames}
    \cup {PList(<<>>), PList(<<PNum(50)>>), PList(<<PNum(50), PNum(50), PNum(50)>>)}
    \cup {PList(<<a, b>>) : a \in Components, b \in Components}
Sizes == {<<1920, 1080>>, <<1080, 1920>>, <<7, 3>>}

PosStart(position, size) ==
    [pc |-> "call", position |-> position, video_width |-> size[1],
     video_height |-> size[2], ret |-> <<>>, raised |-> "none"]

ParsePosition ==
    /\ pos.pc = "call"
    /\ LET out == parse_position(pos.position, pos.video_width, pos.video_height)
       IN  pos' = [pos EXCEPT !.pc = IF out.raised = "none" THEN "returned" ELSE "raised",
                              !.ret = out.ret, !.raised = out.raised]
    /\ UNCHANGED <<grouperVars, run, font, conf, zoom>>

InitPosition ==
    /\ GrouperIdle
    /\ run = Idle
    /\ font = Idle
    /\ conf = Idle
    /\ zoom = Idle
    /\ \E position \in Positions, size \in Sizes : pos = PosStart(position, size)

NextPosition == ParsePosition

SpecPosition == InitPosition /\ [][NextPosition]_vars

-----------------------------------------------------------------------------
(* What the claims about parse_position are stated with. *)
PercentTexts == {"50%", "25%", "100%", "0%", "150%", "50%%"}
PercentValue(t) ==
    CASE t = "50%" -> 50 [] t = "25%" -> 25 [] t = "100%" -> 100 [] t = "0%" -> 0
      [] t = "150%" -> 150 [] t = "50%%" -> 50
IsPair(position) == position.k = "list" /\ Len(position.items) = 2

(* A component that is neither a percentage text nor a number. *)
BadComponent(c) ==
    \/ c.k = "str" /\ c.s \notin PercentTexts
    \/ c.k \in {"none", "list", "dict"}
Malformed(position) ==
    \/ position.k = "str" /\ position.s \notin PredefinedNames \cup {"center"}
    \/ position.k \in {"num", "bool", "dict"}
    \/ position.k = "list" /\ Len(position.items) # 2
    \/ IsPair(position) /\ \E i \in 1..2 : BadComponent(position.items[i])

(* A percentage text or a number that is not negative, and the pixel the claim
   derives from it against a dimension. *)
WellFormed(c) == (c.k = "str" /\ c.s \in PercentTexts) \/ (c.k = "num" /\ c.v >= 0)
Derived(c, dimension) ==
    IF c.k = "str" THEN (PercentValue(c.s) * dimension) \div 100
    ELSE IF c.v <= 100 THEN (c.v * dimension) \div 100
    ELSE c.v \div 100

(* C13: parse_position never raises, and returns ('center', 'center') for an unknown
   text, a value of the wrong type, a list whose length is not 2 and a two-element
   list with a component that is an unparsable text or not a number; so does
   parse_position('center', W, H). *)
C13_NeverRaises ==
    /\ pos.pc # "raised"
    /\ (pos.pc = "returned" /\ (Malformed(pos.position) \/ pos.position = PStr("center")))
          => pos.ret = <<Center, Center>>
C13_Witness ==
    /\ pos.pc = "returned"
    /\ pos.position = PList(<<PNum(50), PStr("50")>>)
    /\ pos.ret = <<Center, Center>>

(* C14: for a well-formed [a, b] parse_position returns (x, y), x derived from a
   against the width and y from b against the height: 'NN%' gives NN/100 of the
   dimension, a number in [0, 1] that fraction of it, a number above 1 that many
   pixels. *)
C14_BothAxes ==
    (pos.pc = "returned" /\ IsPair(pos.position)
       /\ WellFormed(pos.position.items[1]) /\ WellFormed(pos.position.items[2])) =>
        pos.ret = <<Pixel(Derived(pos.position.items[1], pos.video_width)),
                    Pixel(Derived(pos.position.items[2], pos.video_height))>>

(* What does hold: y is derived from b as the claim says, and x is 'center'
   whatever a is. *)
C14_VerticalOnly ==
    (pos.pc = "returned" /\ IsPair(pos.position)
       /\ WellFormed(pos.position.items[1]) /\ WellFormed(pos.position.items[2])) =>
        pos.ret = <<Center, Pixel(Derived(pos.position.items[2], pos.video_height))>>

(* C15: for every video size and every NN with NN/100 in [0, 1],
   parse_position(['NN%', 'NN%']) returns the vertical pixel that
   parse_position([NN/100, NN/100]) returns; so '50%' and 0.5 agree. *)
C15_PercentIsFraction ==
    \A t \in PercentTexts :
        (pos.pc = "returned" /\ PercentValue(t) <= 100
           /\ pos.position = PList(<<PStr(t), PStr(t)>>)) =>
            LET fraction == PNum(PercentValue(t))
                other == parse_position(PList(<<fraction, fraction>>),
                                        pos.video_width, pos.video_height)
            IN  other.raised = "none" /\ pos.ret[2] = other.ret[2]
C15_Witness ==
    /\ pos.pc = "returned"
    /\ pos.position = PList(<<PStr("100%"), PStr("100%")>>)
    /\ pos.video_height = 1080
    /\ pos.ret[2] = Pixel(1080)

-----------------------------------------------------------------------------
(* make_zoom_transform.  Times are whole ticks; the floats the code computes
   from them are exact fractions <<numerator, denominator>> in lowest terms. *)
RECURSIVE GCD(_, _)
GCD(a, b) == IF b = 0 THEN a ELSE GCD(b, a % b)
Abs(n) == IF n < 0 THEN 0 - n ELSE n
Rat(n, d) == LET g == GCD(Abs(n), d) IN <<n \div g, d \div g>>
RAdd(a, b) == Rat(a[1] * b[2] + b[1] * a[2], a[2] * b[2])
RMul(a, b) == Rat(a[1] * b[1], a[2] * b[2])
RDiv(a, b) == Rat(a[1] * b[2], a[2] * b[1])          \* b is positive
RLess(a, b) == a[1] * b[2] < b[1] * a[2]
RLeq(a, b) == a[1] * b[2] <= b[1] * a[2]
Half == Rat(1, 2)
One == Rat(1, 1)

(* `transition_duration = duration * 0.2` *)
TransitionFraction_Half == Rat(1, 2)                \* mutation: duration * 0.5
TransitionFraction == Rat(1, 5)
TransitionDuration(duration) == RMul(Rat(duration, 1), TransitionFraction)

(* `if t < transition_duration` *)
(* mutation: `t <= transition_duration` *)
InTransition_Inclusive(t, transition_duration) == RLeq(Rat(t, 1), transition_duration)
InTransition(t, transition_duration) == RLess(Rat(t, 1), transition_duration)

(* The scale factor of an enabled transform; t / transition_duration raises
   ZeroDivisionError when transition_duration is 0. *)
ScaleRaises(t, duration) ==
    /\ InTransition(t, TransitionDuration(duration))
    /\ TransitionDuration(duration)[1] = 0
Scale(t, duration) ==
    IF InTransition(t, TransitionDuration(duration))
    THEN RAdd(Half, RMul(Half, RDiv(Rat(t, 1), TransitionDuration(duration))))
    ELSE One

(* `int(h * scale)` *)
Scaled(size, scale) == Trunc(size * scale[1], scale[2])

(* `(h - new_h) // 2` *)
Offset_SignSlip(size, new_size) == (new_size - size) \div 2   \* mutation: operands swapped
Offset(size, new_size) == (size - new_size) \div 2

(* How many of n rows or columns the slice [start : start + length] selects, as
   numpy resolves it: a negative index counts from the end, and both ends are
   clipped to the array.  The assignment raises ValueError when the slice is not
   of the resized image's size. *)
Clip(i, n) == IF i < 0 THEN (IF i + n < 0 THEN 0 ELSE i + n) ELSE Min(i, n)
SliceLen(start, length, n) ==
    LET lo == Clip(start, n)
        hi == Clip(start + length, n)
    IN  IF hi > lo THEN hi - lo ELSE 0

(* One call transform_function(get_frame, t) on a frame of h rows and w columns:
   the scale used, the size and place of the resized image and the shape of the
   frame returned, or the exception raised.  A disabled transform returns the
   frame as it is: the whole image at scale 1, at offset 0. *)
Frame(h, w, new_h, new_w, y_offset, x_offset, scale) ==
    [raised |-> "none", scale |-> scale, new_h |-> new_h, new_w |-> new_w,
     y_offset |-> y_offset, x_offset |-> x_offset, out_h |-> h, out_w |-> w]
NoFrame(kind) ==
    [raised |-> kind, scale |-> One, new_h |-> 0, new_w |-> 0,
     y_offset |-> 0, x_offset |-> 0, out_h |-> 0, out_w |-> 0]

transform_function(duration, enabled, h, w, t) ==
    IF ~enabled THEN Frame(h, w, h, w, 0, 0, One)
    ELSE IF ScaleRaises(t, duration) THEN NoFrame("ZeroDivisionError")
    ELSE LET scale == Scale(t, duration)
             new_h == Scaled(h, scale)
             new_w == Scaled(w, scale)
             y_offset == Offset(h, new_h)
             x_offset == Offset(w, new_w)
         IN  IF SliceLen(y_offset, new_h, h) = new_h /\ SliceLen(x_offset, new_w, w) = new_w
             THEN Frame(h, w, new_h, new_w, y_offset, x_offset, scale)
             ELSE NoFrame("ValueError")

(* The frames of a text clip, rows by columns. *)
FrameSizes == {<<2, 2>>, <<3, 5>>, <<101, 64>>, <<1080, 1920>>}

ZoomStart(duration, enabled, size) ==
    [pc |-> "made", duration |-> duration, enabled |-> enabled,
     h |-> size[1], w |-> size[2], t |-> 0, prev_t |-> 0, prev |-> NoFrame("none"),
     frame |-> NoFrame("none")]

(* The clip is rendered frame by frame, at times that do not go back. *)
RenderFrame ==
    /\ zoom.pc \in {"made", "rendered"}
    /\ \E t \in 0..MaxDuration :
         /\ zoom.pc = "rendered" => t >= zoom.t
         /\ LET out == transform_function(zoom.duration, zoom.enabled, zoom.h, zoom.w, t)
            IN  zoom' = [zoom EXCEPT
                           !.pc = IF out.raised = "none" THEN "rendered" ELSE "raised",
                           !.t = t, !.frame = out,
                           !.prev_t = IF zoom.pc = "rendered" THEN zoom.t ELSE t,
                           !.prev = IF zoom.pc = "rendered" THEN zoom.frame ELSE out]
    /\ UNCHANGED <<grouperVars, run, font, conf, pos>>

InitZoom ==
    /\ GrouperIdle
    /\ run = Idle
    /\ font = Idle
    /\ conf = Idle
    /\ pos = Idle
    /\ \E duration \in 0..MaxDuration, enabled \in BOOLEAN, size \in FrameSizes :
         zoom = ZoomStart(duration, enabled, size)

NextZoom == RenderFrame

SpecZoom == InitZoom /\ [][NextZoom]_vars

-----------------------------------------------------------------------------
(* What the claims about the zoom transform are stated with. *)
Rendered == zoom.pc = "rendered"
Ramping == zoom.enabled /\ zoom.duration > 0

(* C16: for an enabled transform of duration d > 0, scale(0) = 0.5,
   scale(t) = 0.5 + 0.5 * t / (0.2 * d) for 0 <= t < 0.2 * d, scale(t) = 1.0 for
   t >= 0.2 * d; the scale does not decrease over [0, d] and stays in [0.5, 1.0]. *)
C16_ScaleRamp ==
    (Rendered /\ Ramping) =>
        /\ zoom.t = 0 => zoom.frame.scale = Half
        /\ 5 * zoom.t < zoom.duration =>
              zoom.frame.scale = Rat(zoom.duration + 5 * zoom.t, 2 * zoom.duration)
        /\ 5 * zoom.t >= zoom.duration => zoom.frame.scale = One
        /\ RLeq(Half, zoom.frame.scale) /\ RLeq(zoom.frame.scale, One)
        /\ zoom.t <= zoom.duration => RLeq(zoom.prev.scale, zoom.frame.scale)
C16_Witness ==
    /\ Rendered /\ Ramping /\ zoom.duration = 10
    /\ zoom.prev_t = 0 /\ zoom.prev.scale = Half
    /\ zoom.t = 1 /\ zoom.frame.scale = Rat(3, 4)

(* C17: with transitions disabled, or with duration 0, the transform raises nothing
   (no division by zero) and the scale is 1.0 at every t >= 0. *)
C17_NoRamp ==
    (~zoom.enabled \/ zoom.duration = 0) =>
        /\ zoom.pc # "raised"
        /\ Rendered =>
              /\ zoom.frame.scale = One
              /\ zoom.frame.new_h = zoom.h /\ zoom.frame.new_w = zoom.w
C17_Witness ==
    /\ Rendered /\ zoom.enabled /\ zoom.duration = 0 /\ zoom.t = 0
    /\ zoom.frame.scale = One

(* C18: for every frame of h rows and w columns and every t >= 0 the frame returned
   has h rows and w columns, and the resized image of int(h * scale) by
   int(w * scale) is placed at the offsets ((h - new_h) // 2, (w - new_w) // 2),
   which are not negative and keep it inside the canvas. *)
C18_Centred ==
    /\ zoom.pc \in {"made", "rendered"}
    /\ Rendered =>
         LET f == zoom.frame IN
           /\ f.out_h = zoom.h /\ f.out_w = zoom.w
           /\ f.new_h = (zoom.h * f.scale[1]) \div f.scale[2]
           /\ f.new_w = (zoom.w * f.scale[1]) \div f.scale[2]
           /\ f.y_offset = (zoom.h - f.new_h) \div 2
           /\ f.x_offset = (zoom.w - f.new_w) \div 2
           /\ f.y_offset >= 0 /\ f.x_offset >= 0
           /\ f.y_offset + f.new_h <= zoom.h /\ f.x_offset + f.new_w <= zoom.w
C18_Witness ==
    /\ Rendered /\ zoom.h = 3 /\ zoom.w = 5 /\ zoom.frame.scale = Rat(3, 4)
    /\ zoom.frame.new_h = 2 /\ zoom.frame.new_w = 3
    /\ zoom.frame.y_offset = 0 /\ zoom.frame.x_offset = 1

-----------------------------------------------------------------------------
(* What the claim about the order of the font sources is stated with. *)
InTable(name) == AlternativesKey(name) \in DOMAIN Alternatives
Failed(outcome) == outcome \notin {"untried", "copied", "saved", "exists"}
Tried(outcome) == outcome # "untried"

(* C19, as the specification words it: the sources are tried in the order local
   fonts directory, system scan for the requested font, substitution table, remote
   download, hardcoded fallback, and the first that succeeds is returned; so the
   substitute is looked for only after the scan for the requested font has failed. *)
C19_SystemScanFirst ==
    /\ Tried(font.exact) => font.local = "absent"
    /\ Tried(font.alt) => Failed(font.exact)
    /\ Tried(font.download) => font.alt # "copied" /\ font.exact # "copied"
    /\ Tried(font.roboto) => Tried(font.download) /\ font.download # "saved"

(* C19, as the code has it: the order is local fonts directory, then, for a font of
   the substitution table, a system scan for its substitute, then a system scan for
   the requested font, then remote download, then, for a font of the table, the
   direct download of the substitute, then the hardcoded fallback; each source is
   tried only after every earlier one has failed, and a source that succeeds ends
   the call.  So a font of the table whose substitute is in a system font
   directory resolves to the substitute, the requested font not being looked for. *)
C19_SubstituteFirst ==
    /\ Tried(font.alt) => font.local = "absent" /\ InTable(font.name)
    /\ Tried(font.exact) =>
          /\ font.local = "absent"
          /\ IF InTable(font.name) THEN Failed(font.alt) ELSE ~Tried(font.alt)
    /\ Tried(font.download) => Failed(font.exact)
    /\ Tried(font.dejavu) => Failed(font.download) /\ InTable(font.name)
    /\ Tried(font.roboto) =>
          /\ Failed(font.download)
          /\ IF InTable(font.name) THEN Failed(font.dejavu) ELSE ~Tried(font.dejavu)
    /\ font.local = "exists" => font.pc = "returned" /\ ~Tried(font.alt)
    /\ font.alt = "copied" => font.pc = "returned" /\ ~Tried(font.exact)
    /\ font.exact = "copied" => font.pc = "returned" /\ ~Tried(font.download)
    /\ font.download = "saved" => font.pc = "returned" /\ ~Tried(font.dejavu)
    /\ font.dejavu = "saved" => font.pc = "returned" /\ ~Tried(font.roboto)
C19_Witness ==
    /\ font.pc = "returned" /\ font.name = "Arial.ttf"
    /\ font.local = "absent" /\ font.alt = "copied" /\ ~Tried(font.exact)

-----------------------------------------------------------------------------
(* What the claim about the display intervals is stated with: the filtered words
   of the whole transcript in order, each with start <= end and ending no later
   than the next one starts. *)
FilteredWords == Flatten([s \in 1..Len(result) |-> Kept(result[s])])
Monotone(F) ==
    /\ \A p \in 1..Len(F) : F[p].start <= F[p].end
    /\ \A p \in 1..(Len(F) - 1) : F[p].end <= F[p + 1].start
DisplayEnd(c) == c.start + c.duration

(* C20: if the filtered words of the transcript, in order across all segments, have
   start <= end and each ends no later than the next starts, the display intervals
   [start, start + duration) of the emitted events do not overlap pairwise and
   their starts do not decrease, for every group size and either highlight value. *)
C20_NoOverlap ==
    (pc # "idle" /\ Monotone(FilteredWords)) =>
        \A i \in 1..Len(subtitle_clips) : \A j \in (i + 1)..Len(subtitle_clips) :
            /\ subtitle_clips[i].start <= subtitle_clips[j].start
            /\ DisplayEnd(subtitle_clips[i]) <= subtitle_clips[j].start
C20_Witness ==
    /\ pc = "done" /\ Monotone(FilteredWords) /\ Len(FilteredWords) = 3
    /\ ~config.highlight /\ G = 2 /\ Len(result) = 2
    /\ Len(subtitle_clips) = 2
    /\ subtitle_clips[1].start = 0 /\ subtitle_clips[1].duration = 1
    /\ subtitle_clips[2].start = 1 /\ subtitle_clips[2].duration = 1
C20_WitnessHighlight ==
    /\ pc = "done" /\ Monotone(FilteredWords) /\ config.highlight /\ G = 2
    /\ Len(subtitle_clips) = 3
    /\ subtitle_clips[2].duration = 1 /\ subtitle_clips[3].duration = 1

-----------------------------------------------------------------------------
(* What the claim about the return paths of load_config is stated with: a
   bg_color that still is the text 'none', in any case of letters. *)
IsNoneText(x) == x.k = "str" /\ x.s \in {"none", "NONE"}
EmptyFile == [key \in Keys |-> Absent]

(* C21: on every return path of load_config (file loaded, file not found, file
   unparsable or validation raising) the returned configuration has passed the
   validation and normalization: bg_color is never the text 'none', and a
   configuration of defaults is the one validation makes of the defaults. *)
C21_NormalizedOnEveryPath ==
    conf.pc = "returned" =>
        /\ ~IsNoneText(conf.out["bg_color"])
        /\ conf.path \in {"not_found", "error"} =>
              conf.out = Validated(FillDefaults(EmptyFile))

(* What does hold: the configuration of a file that was loaded and validated
   without an exception has bg_color None wherever the text was 'none'. *)
C21_NormalizedWhenValidated ==
    (conf.pc = "returned" /\ conf.path = "validated") =>
        /\ ~IsNoneText(conf.out["bg_color"])
        /\ IsNoneText(FillDefaults(conf.doc)["bg_color"]) =>
              conf.out["bg_color"] = PyNone

====
